---- MODULE Spec2Model ----
\* Model of the voice front end for the mcphost agent:
\*   src/src/voice_mcp/text_utils.py      (pure text transforms)
\*   src/src/voice_mcp/mcphost_runner.py  (MCPHostRunner: one exchange with the child)
\*   src/src/voice_mcp/voice_mcphost.py   (VoiceMCPHost: loop, speech queue worker)
\*
\* Text is a sequence of characters; a character is a one-element token.
\* Printable characters stand for themselves, the others carry a name:
\*   "LF" \n   "TAB" \t   "CR" \r   "x01" U+0001   "x1b" U+001B (escape)
\*   "x7f" U+007F   "xa0" U+00A0 (no-break space)   "BQ" U+0060 (backquote)
EXTENDS Integers, Sequences, FiniteSets, TLC

VARIABLES
    textMode,   \* which transform the text scenario exercises
    textIn,     \* the argument built so far
    textN,      \* how many fragments the argument holds
    textOut,    \* the value returned by the transform
    textStage   \* "typing" | "applied"

textVars == <<textMode, textIn, textN, textOut, textStage>>

VARIABLES
    platform,          \* sys.platform: "posix" | "win32"
    response_timeout,  \* MCPHostRunner.response_timeout, in seconds
    rpc,               \* where the runner is inside run_mcphost
    now,               \* ticks since the call started (time.time() - start_time)
    waited,            \* ticks spent in the blocking call the runner is in
    child,             \* the process of this call: "none" | "running" | "exited"
    childSig,          \* what the runner sent it: "none" | "term" | "kill"
    stdinOpen,         \* the child still holds the read end of its stdin
    pipe,              \* per stream: complete lines written and not yet read
    partial,           \* per stream: unterminated characters are pending
    acc,               \* per stream: lines appended to all_output / stderr_output
    fault,             \* what failed in this call: "none" | "spawn" | "write"
    result,            \* kind of string run_mcphost returned, "none" before
    raised,            \* exception that left run_mcphost: "none" | "KeyboardInterrupt"
    usedFallback,      \* run_mcphost_with_pexpect was invoked in this call
    orphans,           \* children of earlier calls that are still running
    calls,             \* calls of run_mcphost made so far
    interrupts         \* Ctrl+C delivered so far

runVars == <<platform, response_timeout, rpc, now, waited, child, childSig,
             stdinOpen, pipe, partial, acc, fault, result, raised,
             usedFallback, orphans, calls, interrupts>>

VARIABLES
    lpc,         \* where the main thread is inside run_interactive
    rounds,      \* iterations of the while loop started so far
    user_input,  \* what record_and_transcribe returned (<<>> stands for None)
    response,    \* kind of string run_mcphost returned to the loop
    capture,     \* the arecord process: "none" | "running" | "writing" | "exited"
    audioFile,   \* voice.wav: "absent" | "empty" | "content"
    failure,     \* the call site that failed in this iteration, "none" if none
    sigints,     \* Ctrl+C delivered to the loop so far
    tts_queue,   \* queue.Queue(): utterance numbers, 0 for the None sentinel
    wpc,         \* the worker thread: "get" | "playing" | "stopped"
    submitted,   \* kind of every utterance put on the queue, in order of put
    playing,     \* utterances the speech engine is playing
    started,     \* utterances in the order their playback started
    finished,    \* utterances played to the end
    failed       \* utterances on which the speech engine raised

loopVars == <<lpc, rounds, user_input, response, capture, audioFile, failure,
              sigints>>

ttsVars == <<tts_queue, wpc, submitted, playing, started, finished, failed>>

VARIABLES
    ppc,            \* where run_mcphost_with_pexpect is
    pchild,         \* the process on the pseudo-terminal: "none" | "running" | "exited"
    pclosed,        \* child.close() has been called
    pprinted,       \* chunks the child has printed so far
    pbuffer,        \* child.buffer: chunks read and not yet consumed by a match
    pbefore,        \* child.before
    pafter,         \* child.after: the text the last match took, none without a match
    psent,          \* chunks written to the pseudo-terminal by sendline
    pwaited,        \* ticks spent in the expect call in progress
    response_text,  \* response_text of run_mcphost_with_pexpect
    pmatched,       \* per expect call made: what ended it
    presult         \* what run_mcphost_with_pexpect returned

ptyVars == <<ppc, pchild, pclosed, pprinted, pbuffer, pbefore, pafter, psent,
             pwaited, response_text, pmatched, presult>>

vars == <<textVars, runVars, loopVars, ttsVars, ptyVars>>

\* what the steps of the runner and of its child leave alone
notRun == <<textVars, loopVars, ttsVars, ptyVars>>

\* what the steps of the text scenario leave alone
notText == <<runVars, loopVars, ttsVars, ptyVars>>

\* what the steps of the loop and of the speech worker leave alone
notLoop == <<textVars, runVars, ptyVars>>

\* what the steps of the pseudo-terminal strategy leave alone
notPty == <<textVars, runVars, loopVars, ttsVars>>

-----------------------------------------------------------------------------
\* Characters

\* ord(c) < 32
LowControl == {"LF", "TAB", "CR", "x01", "x1b"}

\* the class U+0000-U+001F, U+007F-U+009F of the control-character pattern
ControlClass == LowControl \cup {"x7f"}

\* str.isspace(), which is what str.strip() and the pattern \s use on str
Whitespace == {" ", "TAB", "LF", "CR", "xa0"}

IsSpace(c) == c \in Whitespace

-----------------------------------------------------------------------------
\* String primitives of the Python runtime, as the transforms use them

SetMin(S) == CHOOSE x \in S : \A y \in S : x <= y

SetMax(S) == CHOOSE x \in S : \A y \in S : x >= y

\* s[from:] as a sequence
Tail_(s, from) == SubSeq(s, from, Len(s))

\* pat occurs in s at index i
OccursAt(s, pat, i) ==
    /\ i >= 1
    /\ i + Len(pat) - 1 <= Len(s)
    /\ \A k \in 1..Len(pat) : s[i + k - 1] = pat[k]

\* pat in s
Contains(s, pat) == \E i \in 1..(Len(s) - Len(pat) + 1) : OccursAt(s, pat, i)

\* s.find(pat) + 1, 0 when absent
Find(s, pat) ==
    LET hits == {i \in 1..(Len(s) - Len(pat) + 1) : OccursAt(s, pat, i)}
    IN  IF hits = {} THEN 0 ELSE SetMin(hits)

\* s.replace(old, new): leftmost, non-overlapping
RECURSIVE Replace(_, _, _)
Replace(s, old, new) ==
    LET i == Find(s, old)
    IN  IF i = 0 \/ Len(old) = 0 THEN s
        ELSE SubSeq(s, 1, i - 1) \o new
             \o Replace(Tail_(s, i + Len(old)), old, new)

\* first index >= from holding character c, 0 when there is none
FirstIdx(s, c, from) ==
    LET hits == {i \in from..Len(s) : s[i] = c}
    IN  IF hits = {} THEN 0 ELSE SetMin(hits)

\* s.strip()
Strip(s) ==
    LET body == {i \in 1..Len(s) : ~IsSpace(s[i])}
    IN  IF body = {} THEN <<>> ELSE SubSeq(s, SetMin(body), SetMax(body))

\* s.split on the line feed
RECURSIVE Split(_)
Split(s) ==
    LET i == FirstIdx(s, "LF", 1)
    IN  IF i = 0 THEN <<s>>
        ELSE <<SubSeq(s, 1, i - 1)>> \o Split(Tail_(s, i + 1))

\* the lines joined by one space
RECURSIVE Join(_)
Join(lines) ==
    IF lines = <<>> THEN <<>>
    ELSE IF Len(lines) = 1 THEN lines[1]
    ELSE lines[1] \o <<" ">> \o Join(Tail(lines))

Indices(s) == [i \in 1..Len(s) |-> i]

-----------------------------------------------------------------------------
\* text_utils.clean_text_for_speech

\* end index of a match of the link pattern  [ anchor ] ( target )  starting
\* at i, 0 when none; anchor is one or more characters other than ], target
\* one or more characters other than )
LinkEndAt(s, i) ==
    IF i > Len(s) \/ s[i] # "[" THEN 0
    ELSE LET j == FirstIdx(s, "]", i + 1)
         IN  IF j = 0 \/ j < i + 2 \/ j + 1 > Len(s) \/ s[j + 1] # "(" THEN 0
             ELSE LET k == FirstIdx(s, ")", j + 2)
                  IN  IF k = 0 \/ k < j + 3 THEN 0 ELSE k

\* re.sub of the link pattern by its first group (the anchor text)
RECURSIVE SubLinks(_)
SubLinks(s) ==
    LET starts == {i \in 1..Len(s) : LinkEndAt(s, i) # 0}
    IN  IF starts = {} THEN s
        ELSE LET i == SetMin(starts)
                 k == LinkEndAt(s, i)
                 j == FirstIdx(s, "]", i + 1)
             IN  SubSeq(s, 1, i - 1) \o SubSeq(s, i + 1, j - 1)
                 \o SubLinks(Tail_(s, k + 1))

\* the acronym dictionary, in insertion order
replacements == <<
    << <<"C","L","I">>,     <<"c","o","m","m","a","n","d"," ","l","i","n","e">> >>,
    << <<"A","P","I">>,     <<"A"," ","P"," ","I">> >>,
    << <<"J","S","O","N">>, <<"J"," ","S","O","N">> >>,
    << <<"H","T","T","P">>, <<"H"," ","T"," ","T"," ","P">> >>,
    << <<"U","R","L">>,     <<"U"," ","R"," ","L">> >>,
    << <<"S","S","H">>,     <<"S"," ","S"," ","H">> >>,
    << <<"C","P","U">>,     <<"C"," ","P"," ","U">> >>,
    << <<"G","P","U">>,     <<"G"," ","P"," ","U">> >>,
    << <<"R","A","M">>,     <<"R"," ","A"," ","M">> >> >>

\* for term, replacement in replacements.items(): text = text.replace(...)
RECURSIVE ApplyReplacements(_, _)
ApplyReplacements(s, n) ==
    IF n > Len(replacements) THEN s
    ELSE ApplyReplacements(Replace(s, replacements[n][1], replacements[n][2]), n + 1)

\* the length budget of one utterance
SpeechBudget == 500

\* "... The response was truncated for speech."
TruncationNotice ==
    <<".",".","."," ","T","h","e"," ","r","e","s","p","o","n","s","e"," ",
      "w","a","s"," ","t","r","u","n","c","a","t","e","d"," ","f","o","r"," ",
      "s","p","e","e","c","h",".">>

\* the comparison off by one: a text of exactly 500 characters is cut too
Truncate_AtBudget(s) ==
    IF Len(s) >= SpeechBudget THEN SubSeq(s, 1, SpeechBudget) \o TruncationNotice
    ELSE s

\* if len(text) > 500: text = text[:500] + notice
Truncate(s) ==
    IF Len(s) > SpeechBudget THEN SubSeq(s, 1, SpeechBudget) \o TruncationNotice
    ELSE s

StripMarkers(s) ==
    LET s1 == Replace(s, <<"*","*">>, <<>>)
        s2 == Replace(s1, <<"*">>, <<>>)
        s3 == Replace(s2, <<"#">>, <<>>)
        s4 == Replace(s3, <<"BQ">>, <<>>)
    IN  Replace(s4, <<"BQ","BQ","BQ">>, <<>>)

clean_text_for_speech(text) ==
    Truncate(ApplyReplacements(SubLinks(StripMarkers(text)), 1))

-----------------------------------------------------------------------------
\* text_utils.clean_mcphost_response

skip_patterns == <<
    <<"D","E","B","U","G">>,
    <<"I","N","F","O">>,
    <<"2","0","2","5","/">>,
    <<"c","r","e","a","t","i","n","g"," ","m","e","s","s","a","g","e">>,
    <<"s","e","n","d","i","n","g"," ","m","e","s","s","a","g","e","s">>,
    <<"x1b">>,
    <<"E","S","C">>,
    <<"c","o","m","m","a","n","d",":">>,
    <<"a","r","g","s",":">>,
    <<"b","u","f","f","e","r">>,
    <<"b","e","f","o","r","e">>,
    <<"a","f","t","e","r">> >>

\* any(skip in line for skip in skip_patterns)
HasSkipPattern(line) ==
    \E n \in 1..Len(skip_patterns) : Contains(line, skip_patterns[n])

\* len([c for c in line if ord(c) < 32]) > len(line) // 2
MostlyControl(line) ==
    Cardinality({i \in 1..Len(line) : line[i] \in LowControl}) > Len(line) \div 2

\* the body of the loop over the lines: does the line survive?
KeepLine(line) ==
    /\ ~HasSkipPattern(line)
    /\ Strip(line) # <<>>
    /\ ~(Len(Strip(line)) > 0 /\ MostlyControl(line))

\* cleaned_lines: the surviving lines, each stripped
RECURSIVE CleanedLines(_)
CleanedLines(lines) ==
    IF lines = <<>> THEN <<>>
    ELSE (IF KeepLine(Head(lines)) THEN <<Strip(Head(lines))>> ELSE <<>>)
         \o CleanedLines(Tail(lines))

\* the control characters are left in
RemoveControl_Kept(s) == s

\* re.sub of the control class by the empty string
RemoveControl(s) == SelectSeq(s, LAMBDA c : c \notin ControlClass)

\* end index of a match of the tag pattern  < body >  starting at i, 0 when
\* none; body is one or more characters other than >
TagEndAt(s, i) ==
    IF i > Len(s) \/ s[i] # "<" THEN 0
    ELSE LET j == FirstIdx(s, ">", i + 1)
         IN  IF j = 0 \/ j < i + 2 THEN 0 ELSE j

\* re.sub of the tag pattern by the empty string
RECURSIVE RemoveTags(_)
RemoveTags(s) ==
    LET starts == {i \in 1..Len(s) : TagEndAt(s, i) # 0}
    IN  IF starts = {} THEN s
        ELSE LET i == SetMin(starts)
             IN  SubSeq(s, 1, i - 1) \o RemoveTags(Tail_(s, TagEndAt(s, i) + 1))

\* re.sub of every run of whitespace by one space
NormalizeSpace(s) ==
    LET kept == SelectSeq(Indices(s),
                    LAMBDA i : ~IsSpace(s[i]) \/ i = 1 \/ ~IsSpace(s[i - 1]))
    IN  [n \in 1..Len(kept) |-> IF IsSpace(s[kept[n]]) THEN " " ELSE s[kept[n]]]

clean_mcphost_response(raw) ==
    IF raw = <<>> THEN <<>>
    ELSE Strip(NormalizeSpace(RemoveTags(RemoveControl(
             Join(CleanedLines(Split(raw)))))))

-----------------------------------------------------------------------------
\* mcphost_runner.MCPHostRunner: one exchange with the child process.
\* Time is counted in ticks of half a second; it passes only while the runner
\* is inside a blocking call.

TicksPerSecond == 2

\* select timeout of one read, 1.0 s
ReadTimeout == 2

\* time.sleep(0.5) after the quit command
QuitSleep == 1

\* process.wait(timeout=2)
WaitTimeout == 4

MaxTimeout == 1

MaxLines == 1

MaxCalls == 2

MaxInterrupts == 1

\* the overhead a call may add to the response timeout: the two reads of the
\* last iteration, the sleep and the terminate grace
Grace == 2 * ReadTimeout + QuitSleep + WaitTimeout

\* the clock of the model stops here
ClockCap == TicksPerSecond * MaxTimeout + Grace + 2

Streams == {"stdout", "stderr"}

Deadline == TicksPerSecond * response_timeout

InCall == rpc \notin {"idle", "returned"}

\* no call of run_mcphost has been made
RunStart ==
    /\ rpc = "idle"
    /\ now = 0
    /\ waited = 0
    /\ child = "none"
    /\ childSig = "none"
    /\ stdinOpen = FALSE
    /\ pipe = [s \in Streams |-> 0]
    /\ partial = [s \in Streams |-> FALSE]
    /\ acc = [s \in Streams |-> 0]
    /\ fault = "none"
    /\ result = "none"
    /\ raised = "none"
    /\ usedFallback = FALSE
    /\ orphans = 0
    /\ calls = 0
    /\ interrupts = 0

\* the runner as constructed: MCPHostRunner(model, config_path, response_timeout)
RunInit ==
    /\ platform \in {"posix", "win32"}
    /\ response_timeout \in 0..MaxTimeout
    /\ RunStart

config == <<platform, response_timeout>>

\* ---- the child process and the user, as the runner sees them

\* the child prints one complete line (ending a pending partial line, if any);
\* once the call has returned nobody reads the pipes any more
ChildWriteLine ==
    /\ child = "running"
    /\ InCall
    /\ \E s \in Streams :
         /\ pipe[s] + acc[s] < MaxLines
         /\ pipe' = [pipe EXCEPT ![s] = @ + 1]
         /\ partial' = [partial EXCEPT ![s] = FALSE]
    /\ UNCHANGED <<config, rpc, now, waited, child, childSig, stdinOpen, acc,
                   fault, result, raised, usedFallback, orphans, calls, interrupts>>
    /\ UNCHANGED notRun

\* the child prints characters without a line terminator
ChildWritePartial ==
    /\ child = "running"
    /\ InCall
    /\ \E s \in Streams :
         /\ pipe[s] + acc[s] < MaxLines
         /\ ~partial[s]
         /\ partial' = [partial EXCEPT ![s] = TRUE]
    /\ UNCHANGED <<config, rpc, now, waited, child, childSig, stdinOpen, pipe, acc,
                   fault, result, raised, usedFallback, orphans, calls, interrupts>>
    /\ UNCHANGED notRun

\* the child closes its standard input and keeps running
ChildCloseStdin ==
    /\ child = "running"
    /\ InCall
    /\ stdinOpen
    /\ stdinOpen' = FALSE
    /\ UNCHANGED <<config, rpc, now, waited, child, childSig, pipe, partial, acc,
                   fault, result, raised, usedFallback, orphans, calls, interrupts>>
    /\ UNCHANGED notRun

\* the child exits, of its own accord or on a signal
ChildExit ==
    /\ child = "running"
    /\ child' = "exited"
    /\ stdinOpen' = FALSE
    /\ UNCHANGED <<config, rpc, now, waited, childSig, pipe, partial, acc,
                   fault, result, raised, usedFallback, orphans, calls, interrupts>>
    /\ UNCHANGED notRun

\* a child left behind by an earlier call exits
OrphanExit ==
    /\ orphans > 0
    /\ orphans' = orphans - 1
    /\ UNCHANGED <<config, rpc, now, waited, child, childSig, stdinOpen, pipe,
                   partial, acc, fault, result, raised, usedFallback, calls,
                   interrupts>>
    /\ UNCHANGED notRun

\* ---- _read_line_with_timeout

\* select.select([pipe], [], [], timeout) reports the pipe readable: data or
\* end of file
Readable(s) == pipe[s] > 0 \/ partial[s] \/ child # "running"

\* pipe.readline() can return: a complete line is there, or the stream ended
LineAvailable(s) == pipe[s] > 0 \/ child # "running"

SelectPc(s) == IF s = "stdout" THEN "select_stdout" ELSE "select_stderr"

ReadlinePc(s) == IF s = "stdout" THEN "readline_stdout" ELSE "readline_stderr"

\* where the loop body goes after the read of stream s
AfterRead(s) ==
    IF s = "stdout"
    THEN (IF platform = "win32" THEN ReadlinePc("stderr") ELSE SelectPc("stderr"))
    ELSE "loop_test"

\* the blocking call the runner is in cannot return yet
Blocked ==
    \/ \E s \in Streams : rpc = SelectPc(s) /\ ~Readable(s) /\ waited < ReadTimeout
    \/ \E s \in Streams : rpc = ReadlinePc(s) /\ ~LineAvailable(s)
    \/ rpc = "quit_sleep" /\ waited < QuitSleep
    \/ rpc = "wait" /\ child = "running" /\ waited < WaitTimeout

\* half a second passes while the runner is blocked
Tick ==
    /\ Blocked
    /\ now < ClockCap
    /\ now' = now + 1
    /\ waited' = IF waited < WaitTimeout THEN waited + 1 ELSE waited
    /\ UNCHANGED <<config, rpc, child, childSig, stdinOpen, pipe, partial, acc,
                   fault, result, raised, usedFallback, orphans, calls, interrupts>>
    /\ UNCHANGED notRun

\* select returns: the pipe is readable, or the timeout ran out (returns None)
Select ==
    /\ \E s \in Streams :
         /\ rpc = SelectPc(s)
         /\ \/ Readable(s) /\ rpc' = ReadlinePc(s)
            \/ ~Readable(s) /\ waited = ReadTimeout /\ rpc' = AfterRead(s)
    /\ waited' = 0
    /\ UNCHANGED <<config, now, child, childSig, stdinOpen, pipe, partial, acc,
                   fault, result, raised, usedFallback, orphans, calls, interrupts>>
    /\ UNCHANGED notRun

\* pipe.readline() returns a line (the rest of the stream at end of file) and
\* the caller appends it to its accumulator
Readline ==
    /\ \E s \in Streams :
         /\ rpc = ReadlinePc(s)
         /\ LineAvailable(s)
         /\ IF pipe[s] > 0
            THEN /\ pipe' = [pipe EXCEPT ![s] = @ - 1]
                 /\ acc' = [acc EXCEPT ![s] = @ + 1]
                 /\ UNCHANGED partial
            ELSE /\ partial' = [partial EXCEPT ![s] = FALSE]
                 /\ UNCHANGED <<pipe, acc>>
         /\ rpc' = AfterRead(s)
    /\ waited' = 0
    /\ UNCHANGED <<config, now, child, childSig, stdinOpen,
                   fault, result, raised, usedFallback, orphans, calls, interrupts>>
    /\ UNCHANGED notRun

\* ---- run_mcphost_basic

\* the classes caught by `except Exception`
IsException(e) == e \in {"OSError", "BrokenPipeError"}

\* run_mcphost(prompt) is called: by the loop of run_interactive, which a
\* KeyboardInterrupt out of an earlier call has ended. A child of the earlier
\* call that still runs is left behind.
Call ==
    /\ rpc \in {"idle", "returned"}
    /\ raised = "none"
    /\ calls < MaxCalls
    /\ calls' = calls + 1
    /\ rpc' = "popen"
    /\ orphans' = IF child = "running" THEN orphans + 1 ELSE orphans
    /\ child' = "none"
    /\ childSig' = "none"
    /\ stdinOpen' = FALSE
    /\ pipe' = [s \in Streams |-> 0]
    /\ partial' = [s \in Streams |-> FALSE]
    /\ acc' = [s \in Streams |-> 0]
    /\ now' = 0
    /\ waited' = 0
    /\ fault' = "none"
    /\ result' = "none"
    /\ raised' = "none"
    /\ usedFallback' = FALSE
    /\ UNCHANGED <<config, interrupts>>
    /\ UNCHANGED notRun

\* process = subprocess.Popen(cmd, ...): the child starts, or the launch fails
Popen ==
    /\ rpc = "popen"
    /\ \/ /\ child' = "running"
          /\ stdinOpen' = TRUE
          /\ rpc' = "write_prompt"
          /\ UNCHANGED <<fault, raised>>
       \/ /\ fault' = "spawn"
          /\ raised' = "OSError"
          /\ rpc' = "basic_except"
          /\ UNCHANGED <<child, stdinOpen>>
    /\ UNCHANGED <<config, now, waited, childSig, pipe, partial, acc, result,
                   usedFallback, orphans, calls, interrupts>>
    /\ UNCHANGED notRun

\* process.stdin.write(prompt + newline); flush(); start_time = time.time()
WritePrompt ==
    /\ rpc = "write_prompt"
    /\ IF stdinOpen
       THEN /\ rpc' = "loop_test"
            /\ UNCHANGED <<fault, raised>>
       ELSE /\ fault' = "write"
            /\ raised' = "BrokenPipeError"
            /\ rpc' = "basic_except"
    /\ now' = 0
    /\ waited' = 0
    /\ UNCHANGED <<config, child, childSig, stdinOpen, pipe, partial, acc, result,
                   usedFallback, orphans, calls, interrupts>>
    /\ UNCHANGED notRun

\* while time.time() - start_time < self.response_timeout:
\*     if process.poll() is not None: break
LoopTest ==
    /\ rpc = "loop_test"
    /\ rpc' = IF now < Deadline /\ child = "running"
              THEN (IF platform = "win32" THEN ReadlinePc("stdout")
                    ELSE SelectPc("stdout"))
              ELSE "quit_write"
    /\ waited' = 0
    /\ UNCHANGED <<config, now, child, childSig, stdinOpen, pipe, partial, acc,
                   fault, result, raised, usedFallback, orphans, calls, interrupts>>
    /\ UNCHANGED notRun

\* process.stdin.write("quit"); flush(): a failure skips the sleep
QuitWrite ==
    /\ rpc = "quit_write"
    /\ rpc' = IF stdinOpen THEN "quit_sleep" ELSE "terminate"
    /\ waited' = 0
    /\ UNCHANGED <<config, now, child, childSig, stdinOpen, pipe, partial, acc,
                   fault, result, raised, usedFallback, orphans, calls, interrupts>>
    /\ UNCHANGED notRun

\* time.sleep(0.5) is over
QuitSleepDone ==
    /\ rpc = "quit_sleep"
    /\ waited = QuitSleep
    /\ rpc' = "terminate"
    /\ waited' = 0
    /\ UNCHANGED <<config, now, child, childSig, stdinOpen, pipe, partial, acc,
                   fault, result, raised, usedFallback, orphans, calls, interrupts>>
    /\ UNCHANGED notRun

\* process.terminate()
Terminate ==
    /\ rpc = "terminate"
    /\ childSig' = IF child = "running" THEN "term" ELSE childSig
    /\ rpc' = "wait"
    /\ waited' = 0
    /\ UNCHANGED <<config, now, child, stdinOpen, pipe, partial, acc,
                   fault, result, raised, usedFallback, orphans, calls, interrupts>>
    /\ UNCHANGED notRun

\* the timeout reported as an error
LabeledReturn_TimeoutError ==
    /\ result' = "error"
    /\ rpc' = "run_mcphost"
    /\ waited' = 0

\* return the accumulated output under its two labels
LabeledReturn ==
    /\ result' = "labeled"
    /\ rpc' = "run_mcphost"
    /\ waited' = 0

\* process.wait(timeout=2) returns: the child has exited
WaitReturn ==
    /\ rpc = "wait"
    /\ child # "running"
    /\ LabeledReturn
    /\ UNCHANGED <<config, now, child, childSig, stdinOpen, pipe, partial, acc,
                   fault, raised, usedFallback, orphans, calls, interrupts>>
    /\ UNCHANGED notRun

\* process.kill(), in the handler of the terminate/wait block
Kill ==
    /\ child' = "exited"
    /\ childSig' = "kill"
    /\ stdinOpen' = FALSE

\* process.wait(timeout=2) raises TimeoutExpired: kill
WaitExpired ==
    /\ rpc = "wait"
    /\ child = "running"
    /\ waited = WaitTimeout
    /\ Kill
    /\ LabeledReturn
    /\ UNCHANGED <<config, now, pipe, partial, acc,
                   fault, raised, usedFallback, orphans, calls, interrupts>>
    /\ UNCHANGED notRun

\* Ctrl+C reaches the main thread while it is inside the call
Interrupt ==
    /\ interrupts < MaxInterrupts
    /\ interrupts' = interrupts + 1
    /\ \/ \* in select: nothing around it catches KeyboardInterrupt
          /\ \E s \in Streams : rpc = SelectPc(s)
          /\ raised' = "KeyboardInterrupt"
          /\ rpc' = "basic_except"
          /\ UNCHANGED <<child, childSig, stdinOpen, result>>
       \/ \* in readline: the bare except returns None
          /\ \E s \in Streams : rpc = ReadlinePc(s) /\ rpc' = AfterRead(s)
          /\ UNCHANGED <<child, childSig, stdinOpen, result, raised>>
       \/ \* in the sleep after quit: the bare except passes
          /\ rpc = "quit_sleep"
          /\ rpc' = "terminate"
          /\ UNCHANGED <<child, childSig, stdinOpen, result, raised>>
       \/ \* in wait: the bare except kills
          /\ rpc = "wait"
          /\ Kill
          /\ result' = "labeled"
          /\ rpc' = "run_mcphost"
          /\ UNCHANGED raised
    /\ waited' = 0
    /\ UNCHANGED <<config, now, pipe, partial, acc, fault, usedFallback,
                   orphans, calls>>
    /\ UNCHANGED notRun

\* what the handler `except Exception as e` of run_mcphost_basic makes of an
\* exception raised in its body: "error" is the returned error message,
\* "none" lets the exception pass
basic_handler(e) == IF IsException(e) THEN "error" ELSE "none"

\* except Exception as e: return "Error running MCPHost: ..."
BasicExcept ==
    /\ rpc = "basic_except"
    /\ result' = basic_handler(raised)
    /\ raised' = IF basic_handler(raised) = "none" THEN raised ELSE "none"
    /\ rpc' = "run_mcphost"
    /\ UNCHANGED <<config, now, waited, child, childSig, stdinOpen, pipe, partial,
                   acc, fault, usedFallback, orphans, calls, interrupts>>
    /\ UNCHANGED notRun

\* ---- run_mcphost

\* try: return self.run_mcphost_basic(prompt)
\* except Exception as e: ... return self.run_mcphost_with_pexpect(prompt)
RunMcphostReturn ==
    /\ rpc = "run_mcphost"
    /\ IF IsException(raised)
       THEN /\ usedFallback' = TRUE
            /\ rpc' = "pexpect"
            /\ raised' = "none"
       ELSE /\ rpc' = "returned"
            /\ UNCHANGED <<usedFallback, raised>>
    /\ UNCHANGED <<config, now, waited, child, childSig, stdinOpen, pipe, partial,
                   acc, fault, result, orphans, calls, interrupts>>
    /\ UNCHANGED notRun

\* the runner is not in use
RunParked ==
    /\ platform = "posix"
    /\ response_timeout = 0
    /\ RunStart

\* the text scenario is not running
TextParked ==
    /\ textMode = "response"
    /\ textIn = <<>>
    /\ textN = 0
    /\ textOut = <<>>
    /\ textStage = "parked"

\* the loop and the speech worker are not running
LoopParked ==
    /\ lpc = "parked"
    /\ rounds = 0
    /\ user_input = <<>>
    /\ response = "none"
    /\ capture = "none"
    /\ audioFile = "absent"
    /\ failure = "none"
    /\ sigints = 0
    /\ tts_queue = <<>>
    /\ wpc = "parked"
    /\ submitted = <<>>
    /\ playing = {}
    /\ started = <<>>
    /\ finished = {}
    /\ failed = {}

\* the pseudo-terminal strategy is not running
PtyParked ==
    /\ ppc = "parked"
    /\ pchild = "none"
    /\ pclosed = FALSE
    /\ pprinted = 0
    /\ pbuffer = <<>>
    /\ pbefore = <<>>
    /\ pafter = <<>>
    /\ psent = <<>>
    /\ pwaited = 0
    /\ response_text = <<>>
    /\ pmatched = <<>>
    /\ presult = [kind |-> "none", text |-> <<>>]

RunNext ==
    \/ Call
    \/ Popen
    \/ WritePrompt
    \/ LoopTest
    \/ Select
    \/ Readline
    \/ Tick
    \/ QuitWrite
    \/ QuitSleepDone
    \/ Terminate
    \/ WaitReturn
    \/ WaitExpired
    \/ Interrupt
    \/ BasicExcept
    \/ RunMcphostReturn
    \/ ChildWriteLine
    \/ ChildWritePartial
    \/ ChildCloseStdin
    \/ ChildExit
    \/ OrphanExit

InitDispatch == RunInit /\ TextParked /\ LoopParked /\ PtyParked

SpecDispatch == InitDispatch /\ [][RunNext]_vars

-----------------------------------------------------------------------------
\* mcphost_runner.MCPHostRunner.run_mcphost_with_pexpect
\*
\* What the child prints arrives in chunks. A chunk is named by what it holds:
\*   "prompt"  text that a ready pattern and a next-prompt pattern match
\*             (Enter your prompt, prompt, You:, >>)
\*   "user"    text that only a ready pattern matches (User:, >)
\*   "asst"    text that a reply-begins pattern matches (Assistant:, Response:, AI:)
\*   "txt"     text that no pattern matches

MaxChunks == 3

Chunks == {"prompt", "user", "asst", "txt"}

\* the patterns of the first expect call
ReadyPatterns == {"prompt", "user"}

\* the patterns of the second expect call
StartPatterns == {"asst"}

\* the patterns of the expect call inside the while loop
NextPatterns == {"prompt"}

\* child.expect(..., timeout=15)
ExpectReadyTimeout == 15 * TicksPerSecond

\* child.expect(..., timeout=self.response_timeout)
ExpectStartTimeout == TicksPerSecond * response_timeout

\* child.expect(..., timeout=5)
ExpectNextTimeout == 5 * TicksPerSecond

\* where the leftmost match of one of the patterns starts in the buffer,
\* 0 when there is none
MatchAt(buffer, patterns) ==
    LET hits == {i \in 1..Len(buffer) : buffer[i] \in patterns}
    IN  IF hits = {} THEN 0 ELSE SetMin(hits)

\* how an expect call with these patterns and this timeout ends now:
\* "match", "eof", "timeout", or "blocked" while it still waits
ExpectOutcome(patterns, timeout) ==
    IF MatchAt(pbuffer, patterns) # 0 THEN "match"
    ELSE IF pchild = "exited" THEN "eof"
    ELSE IF pwaited >= timeout THEN "timeout"
    ELSE "blocked"

\* child.before once the expect call has ended: the text ahead of the match,
\* or all of the buffer
BeforeAfter(patterns) ==
    IF MatchAt(pbuffer, patterns) # 0
    THEN SubSeq(pbuffer, 1, MatchAt(pbuffer, patterns) - 1)
    ELSE pbuffer

\* child.after once the expect call has ended: the text the match took, from
\* where it starts to the end of the buffer; nothing of the child's text
\* without a match
MatchedText(patterns) ==
    IF MatchAt(pbuffer, patterns) # 0
    THEN SubSeq(pbuffer, MatchAt(pbuffer, patterns), Len(pbuffer))
    ELSE <<>>

\* child.buffer once the expect call has ended: every pattern ends in a
\* greedy dot-star that also crosses line ends, so a match takes the rest of
\* the buffer; end of stream empties it; a timeout keeps it
BufferAfter(patterns) ==
    IF MatchAt(pbuffer, patterns) # 0 \/ pchild = "exited" THEN <<>> ELSE pbuffer

\* the timeout of the expect call the strategy is in
ExpectTimeout ==
    CASE ppc = "await_ready" -> ExpectReadyTimeout
      [] ppc = "await_start" -> ExpectStartTimeout
      [] ppc = "accumulate"  -> ExpectNextTimeout
      [] OTHER -> 0

\* the patterns of the expect call the strategy is in
ExpectPatterns ==
    CASE ppc = "await_ready" -> ReadyPatterns
      [] ppc = "await_start" -> StartPatterns
      [] ppc = "accumulate"  -> NextPatterns
      [] OTHER -> {}

PtyInCall == ppc \notin {"parked", "returned"}

\* run_mcphost_with_pexpect(prompt) has just been called
PtyInit ==
    /\ ppc = "spawn"
    /\ pchild = "none"
    /\ pclosed = FALSE
    /\ pprinted = 0
    /\ pbuffer = <<>>
    /\ pbefore = <<>>
    /\ pafter = <<>>
    /\ psent = <<>>
    /\ pwaited = 0
    /\ response_text = <<>>
    /\ pmatched = <<>>
    /\ presult = [kind |-> "none", text |-> <<>>]

\* the child prints a chunk; pexpect reads it inside the next expect call
PtyChildPrint ==
    /\ pchild = "running"
    /\ PtyInCall
    /\ pprinted < MaxChunks
    /\ pprinted' = pprinted + 1
    /\ \E c \in Chunks : pbuffer' = Append(pbuffer, c)
    /\ UNCHANGED <<ppc, pchild, pclosed, pbefore, psent, pwaited, response_text,
                   pmatched, presult>>
    /\ UNCHANGED pafter
    /\ UNCHANGED notPty

\* the child exits of its own accord
PtyChildExit ==
    /\ pchild = "running"
    /\ PtyInCall
    /\ pchild' = "exited"
    /\ UNCHANGED <<ppc, pclosed, pprinted, pbuffer, pbefore, psent, pwaited,
                   response_text, pmatched, presult>>
    /\ UNCHANGED pafter
    /\ UNCHANGED notPty

\* half a second passes inside an expect call that has nothing to return
PtyTick ==
    /\ ppc \in {"await_ready", "await_start", "accumulate"}
    /\ ExpectOutcome(ExpectPatterns, ExpectTimeout) = "blocked"
    /\ pwaited' = pwaited + 1
    /\ UNCHANGED <<ppc, pchild, pclosed, pprinted, pbuffer, pbefore, psent,
                   response_text, pmatched, presult>>
    /\ UNCHANGED pafter
    /\ UNCHANGED notPty

\* import pexpect; child = pexpect.spawn(cmd, env=...): the child starts on
\* a pseudo-terminal, or the import or the launch raises
PtySpawn ==
    /\ ppc = "spawn"
    /\ \/ /\ pchild' = "running"
          /\ ppc' = "await_ready"
       \/ /\ ppc' = "except"
          /\ UNCHANGED pchild
    /\ UNCHANGED <<pclosed, pprinted, pbuffer, pbefore, psent, pwaited,
                   response_text, pmatched, presult>>
    /\ UNCHANGED pafter
    /\ UNCHANGED notPty

\* the timeout left out of the pattern list and not caught
AfterReady_TimeoutRaises(outcome) == IF outcome = "match" THEN "send" ELSE "except"

\* where the first expect call leaves the strategy: a match and a timeout
\* both go on to sendline; end of stream raises pexpect.EOF, which the
\* handler for pexpect.TIMEOUT does not catch
AfterReady(outcome) == IF outcome = "eof" THEN "except" ELSE "send"

\* index = child.expect([ready patterns..., pexpect.TIMEOUT], timeout=15)
AwaitReady ==
    /\ ppc = "await_ready"
    /\ LET outcome == ExpectOutcome(ReadyPatterns, ExpectReadyTimeout)
       IN  /\ outcome # "blocked"
           /\ pmatched' = Append(pmatched, outcome)
           /\ ppc' = AfterReady(outcome)
    /\ pbefore' = BeforeAfter(ReadyPatterns)
    /\ pafter' = MatchedText(ReadyPatterns)
    /\ pbuffer' = BufferAfter(ReadyPatterns)
    /\ pwaited' = 0
    /\ UNCHANGED <<pchild, pclosed, pprinted, psent, response_text, presult>>
    /\ UNCHANGED notPty

\* child.sendline(prompt); response_text = "". The write to a
\* pseudo-terminal whose child is gone succeeds or raises OSError.
Send ==
    /\ ppc = "send"
    /\ \/ /\ psent' = Append(psent, "prompt_line")
          /\ ppc' = "await_start"
       \/ /\ pchild = "exited"
          /\ ppc' = "except"
          /\ UNCHANGED psent
    /\ pwaited' = 0
    /\ UNCHANGED <<pchild, pclosed, pprinted, pbuffer, pbefore, response_text,
                   pmatched, presult>>
    /\ UNCHANGED pafter
    /\ UNCHANGED notPty

\* index = child.expect([reply patterns..., pexpect.TIMEOUT],
\*                      timeout=self.response_timeout):
\* index < 3 enters the while loop; the timeout is index 3, whose branch only
\* prints; end of stream raises pexpect.EOF
AwaitStart ==
    /\ ppc = "await_start"
    /\ LET outcome == ExpectOutcome(StartPatterns, ExpectStartTimeout)
       IN  /\ outcome # "blocked"
           /\ pmatched' = Append(pmatched, outcome)
           /\ ppc' = CASE outcome = "match"   -> "accumulate"
                       [] outcome = "timeout" -> "close"
                       [] outcome = "eof"     -> "except"
    /\ pbefore' = BeforeAfter(StartPatterns)
    /\ pafter' = MatchedText(StartPatterns)
    /\ pbuffer' = BufferAfter(StartPatterns)
    /\ pwaited' = 0
    /\ UNCHANGED <<pchild, pclosed, pprinted, psent, response_text, presult>>
    /\ UNCHANGED notPty

\* while True: index = child.expect([next patterns..., TIMEOUT, EOF], timeout=5)
\*   index < 4: response_text = child.before; break
\*   TIMEOUT, EOF: response_text += child.before; break
Accumulate ==
    /\ ppc = "accumulate"
    /\ LET outcome == ExpectOutcome(NextPatterns, ExpectNextTimeout)
       IN  /\ outcome # "blocked"
           /\ pmatched' = Append(pmatched, outcome)
           /\ response_text' = IF outcome = "match"
                               THEN BeforeAfter(NextPatterns)
                               ELSE response_text \o BeforeAfter(NextPatterns)
    /\ ppc' = "close"
    /\ pbefore' = BeforeAfter(NextPatterns)
    /\ pafter' = MatchedText(NextPatterns)
    /\ pbuffer' = BufferAfter(NextPatterns)
    /\ pwaited' = 0
    /\ UNCHANGED <<pchild, pclosed, pprinted, psent, presult>>
    /\ UNCHANGED notPty

\* child.close(); return response_text if response_text else
\* "No response text captured"
PtyClose ==
    /\ ppc = "close"
    /\ pclosed' = TRUE
    /\ pchild' = "exited"
    /\ presult' = IF response_text # <<>>
                  THEN [kind |-> "text", text |-> response_text]
                  ELSE [kind |-> "no_text", text |-> <<>>]
    /\ ppc' = "returned"
    /\ UNCHANGED <<pprinted, pbuffer, pbefore, psent, pwaited, response_text,
                   pmatched>>
    /\ UNCHANGED pafter
    /\ UNCHANGED notPty

\* except Exception as e: return "Error with pexpect approach: ..."
PtyExcept ==
    /\ ppc = "except"
    /\ presult' = [kind |-> "error", text |-> <<>>]
    /\ ppc' = "returned"
    /\ UNCHANGED <<pchild, pclosed, pprinted, pbuffer, pbefore, psent, pwaited,
                   response_text, pmatched>>
    /\ UNCHANGED pafter
    /\ UNCHANGED notPty

PtyNext ==
    \/ PtySpawn
    \/ AwaitReady
    \/ Send
    \/ AwaitStart
    \/ Accumulate
    \/ PtyClose
    \/ PtyExcept
    \/ PtyTick
    \/ PtyChildPrint
    \/ PtyChildExit

\* one call of run_mcphost_with_pexpect on a runner with some response timeout
InitPexpect ==
    /\ PtyInit
    /\ platform = "posix"
    /\ response_timeout \in 0..MaxTimeout
    /\ RunStart
    /\ TextParked
    /\ LoopParked

SpecPexpect == InitPexpect /\ [][PtyNext]_vars

-----------------------------------------------------------------------------
\* voice_mcphost.VoiceMCPHost: the speech queue and its worker thread

MaxRounds == 2

MaxSigints == 1

\* the value shutdown puts on the queue: None
Sentinel == 0

\* a put that places the item at the head of the queue
QueuePut_AtHead(q, item) == <<item>> \o q

\* self.tts_queue.put(item)
QueuePut(q, item) == Append(q, item)

\* the newest item instead of the oldest
QueueFront_Newest(q) == q[Len(q)]

\* the item self.tts_queue.get() hands out
QueueFront(q) == Head(q)

\* the queue after that get()
QueueRest(q) == Tail(q)

\* a queue of one slot, on which put waits for the worker
CanPut_OneSlot(q) == Len(q) < 1

\* put(item) can return: queue.Queue() has no maximum size
CanPut(q) == TRUE

\* speak_text(text): clean_text = clean_text_for_speech(text); put(clean_text).
\* The utterance is numbered by its position among the puts.
SpeakText(kind) ==
    /\ CanPut(tts_queue)
    /\ submitted' = Append(submitted, kind)
    /\ tts_queue' = QueuePut(tts_queue, Len(submitted) + 1)
    /\ UNCHANGED <<wpc, playing, started, finished, failed>>

\* the handler placed around the while loop instead of inside it
AfterTtsError_Stop == "stopped"

\* where the worker goes when say / runAndWait raised: the handler prints and
\* the while loop goes on
AfterTtsError == "get"

\* the sentinel skipped: the while loop goes on
AfterSentinel_Continue == "get"

\* where the worker goes when it took the sentinel: if text is None: break
AfterSentinel == "stopped"

\* text = self.tts_queue.get(timeout=1); if text is None: break;
\* self.tts_engine.say(text)
WorkerGet ==
    /\ wpc = "get"
    /\ tts_queue # <<>>
    /\ LET text == QueueFront(tts_queue)
       IN  IF text = Sentinel
           THEN /\ wpc' = AfterSentinel
                /\ UNCHANGED <<playing, started>>
           ELSE /\ wpc' = "playing"
                /\ playing' = playing \cup {text}
                /\ started' = Append(started, text)
    /\ tts_queue' = QueueRest(tts_queue)
    /\ UNCHANGED <<submitted, finished, failed>>
    /\ UNCHANGED <<loopVars, notLoop>>

\* self.tts_engine.runAndWait() returns; self.tts_queue.task_done()
WorkerPlayed ==
    /\ wpc = "playing"
    /\ finished' = finished \cup playing
    /\ playing' = {}
    /\ wpc' = "get"
    /\ UNCHANGED <<tts_queue, submitted, started, failed>>
    /\ UNCHANGED <<loopVars, notLoop>>

\* the speech engine raises: except Exception as e: print(...)
WorkerTtsError ==
    /\ wpc = "playing"
    /\ failed' = failed \cup playing
    /\ playing' = {}
    /\ wpc' = AfterTtsError
    /\ UNCHANGED <<tts_queue, submitted, started, finished>>
    /\ UNCHANGED <<loopVars, notLoop>>

TtsInit ==
    /\ tts_queue = <<>>
    /\ wpc = "get"
    /\ submitted = <<>>
    /\ playing = {}
    /\ started = <<>>
    /\ finished = {}
    /\ failed = {}

-----------------------------------------------------------------------------
\* voice_mcphost.VoiceMCPHost: record_and_transcribe and run_interactive

UpperCase == <<"A","B","C","D","E","F","G","H","I","J","K","L","M",
               "N","O","P","Q","R","S","T","U","V","W","X","Y","Z">>

LowerCase == <<"a","b","c","d","e","f","g","h","i","j","k","l","m",
               "n","o","p","q","r","s","t","u","v","w","x","y","z">>

\* c.lower()
LowerChar(c) ==
    IF \E n \in 1..Len(UpperCase) : UpperCase[n] = c
    THEN LowerCase[CHOOSE n \in 1..Len(UpperCase) : UpperCase[n] = c]
    ELSE c

\* s.lower()
Lower(s) == [i \in 1..Len(s) |-> LowerChar(s[i])]

\* ['exit', 'quit', 'goodbye', 'stop', 'bye']
ExitCommands == {
    <<"e","x","i","t">>, <<"q","u","i","t">>,
    <<"g","o","o","d","b","y","e">>, <<"s","t","o","p">>, <<"b","y","e">> }

\* the comparison without lower()
IsExitCommand_CaseSensitive(text) == text \in ExitCommands

\* user_input.lower() in [...]
IsExitCommand(text) == Lower(text) \in ExitCommands

\* the texts the transcription may return in result["text"]
RawTranscripts == {
    <<>>,
    <<" ">>,
    <<" ","S","T","O","P">>,
    <<"p","l","e","a","s","e"," ","s","t","o","p">>,
    <<"B","y","e">>,
    <<"h","i">> }

\* an empty string among the strings returned
Responses_WithEmpty == {"labeled", "error", "none"}

\* the kinds of string run_mcphost returns: the labelled output of the basic
\* strategy, or its error message
Responses == {"labeled", "error"}

LoopInit ==
    /\ lpc = "start"
    /\ rounds = 0
    /\ user_input = <<>>
    /\ response = "none"
    /\ capture = "none"
    /\ audioFile \in {"absent", "content"}
    /\ failure = "none"
    /\ sigints = 0

\* self.speak_text(welcome_msg)
Welcome ==
    /\ lpc = "start"
    /\ SpeakText("welcome")
    /\ lpc' = "record"
    /\ UNCHANGED <<rounds, user_input, response, capture, audioFile, failure,
                   sigints>>
    /\ UNCHANGED notLoop

\* process = subprocess.Popen(["arecord", ...]): the capture starts, or the
\* launch raises, which nothing in record_and_transcribe catches
StartRecording ==
    /\ lpc = "record"
    /\ rounds < MaxRounds
    /\ rounds' = rounds + 1
    /\ user_input' = <<>>
    /\ response' = "none"
    /\ \/ /\ capture' = "running"
          /\ lpc' = "await_enter"
          /\ failure' = "none"
       \/ /\ failure' = "capture_launch"
          /\ lpc' = "on_error"
          /\ UNCHANGED capture
    /\ UNCHANGED <<audioFile, sigints, ttsVars>>
    /\ UNCHANGED notLoop

\* arecord opens voice.wav, which creates it or empties an older one, and
\* then writes samples to it; a file removed meanwhile is not created again
ArecordWrite ==
    /\ \/ /\ capture = "running"
          /\ capture' = "writing"
          /\ audioFile' = "empty"
       \/ /\ capture = "writing"
          /\ audioFile = "empty"
          /\ audioFile' = "content"
          /\ UNCHANGED capture
    /\ UNCHANGED <<lpc, rounds, user_input, response, failure, sigints,
                   ttsVars>>
    /\ UNCHANGED notLoop

\* input() returns: the user pressed ENTER
PressEnter ==
    /\ lpc = "await_enter"
    /\ lpc' = "stop_capture"
    /\ UNCHANGED <<rounds, user_input, response, capture, audioFile, failure,
                   sigints, ttsVars>>
    /\ UNCHANGED notLoop

\* input() raises EOFError: standard input is closed
InputEof ==
    /\ lpc = "await_enter"
    /\ failure' = "input_eof"
    /\ lpc' = "on_error"
    /\ UNCHANGED <<rounds, user_input, response, capture, audioFile, sigints,
                   ttsVars>>
    /\ UNCHANGED notLoop

\* process.terminate(); process.wait()
\* the capture process signalled and not waited for: it may still run
CaptureAfterStop_NoWait(c) == c

\* the capture process after process.terminate(); process.wait()
CaptureAfterStop(c) == "exited"

StopRecording ==
    /\ lpc = "stop_capture"
    /\ capture' = CaptureAfterStop(capture)
    /\ lpc' = "check_audio"
    /\ UNCHANGED <<rounds, user_input, response, audioFile, failure, sigints,
                   ttsVars>>
    /\ UNCHANGED notLoop

\* the existence test alone, without the size test
HasAudio_SizeIgnored(file) == file # "absent"

\* os.path.exists(file) and os.path.getsize(file) != 0
HasAudio(file) == file = "content"

\* if not os.path.exists(file) or os.path.getsize(file) == 0: return None;
\* back in run_interactive: if not user_input: continue
CheckAudio ==
    /\ lpc = "check_audio"
    /\ lpc' = IF HasAudio(audioFile) THEN "transcribing" ELSE "record"
    /\ UNCHANGED <<rounds, user_input, response, capture, audioFile, failure,
                   sigints, ttsVars>>
    /\ UNCHANGED notLoop

\* the text of the transcription taken as it is
TranscribedText_Unstripped(raw) == raw

\* transcribed_text = result["text"].strip()
TranscribedText(raw) == Strip(raw)

\* result = self.whisper_model.transcribe(file); text = result["text"].strip();
\* an empty text and an exception both return None; finally: os.remove(file).
\* Back in run_interactive: if not user_input: continue
Transcribe ==
    /\ lpc = "transcribing"
    /\ \/ \E raw \in RawTranscripts :
            /\ user_input' = TranscribedText(raw)
            /\ lpc' = IF TranscribedText(raw) = <<>>
                      THEN "record" ELSE "have_input"
            /\ UNCHANGED failure
       \/ /\ failure' = "transcription"
          /\ user_input' = <<>>
          /\ lpc' = "record"
    /\ audioFile' = "absent"
    /\ UNCHANGED <<rounds, response, capture, sigints, ttsVars>>
    /\ UNCHANGED notLoop

\* if user_input.lower() in [...]: speak_text(goodbye_msg); time.sleep(3); break
ExitCheck ==
    /\ lpc = "have_input"
    /\ IF IsExitCommand(user_input)
       THEN /\ SpeakText("goodbye")
            /\ lpc' = "exit_grace"
       ELSE /\ lpc' = "dispatching"
            /\ UNCHANGED ttsVars
    /\ UNCHANGED <<rounds, user_input, response, capture, audioFile, failure,
                   sigints>>
    /\ UNCHANGED notLoop

\* response = self.mcphost.run_mcphost(user_input) returns
Dispatch ==
    /\ lpc = "dispatching"
    /\ \E r \in Responses :
         /\ response' = r
         /\ failure' = IF r = "error" THEN "agent" ELSE failure
    /\ lpc' = "speak"
    /\ UNCHANGED <<rounds, user_input, capture, audioFile, sigints, ttsVars>>
    /\ UNCHANGED notLoop

\* if response: clean_response = clean_mcphost_response(response);
\*              self.speak_text(clean_response)
SpeakResponse ==
    /\ lpc = "speak"
    /\ IF response # "none"
       THEN SpeakText("reply")
       ELSE UNCHANGED ttsVars
    /\ lpc' = "record"
    /\ UNCHANGED <<rounds, user_input, response, capture, audioFile, failure,
                   sigints>>
    /\ UNCHANGED notLoop

\* time.sleep(3) is over; break
ExitGraceOver ==
    /\ lpc = "exit_grace"
    /\ lpc' = "finally"
    /\ UNCHANGED <<rounds, user_input, response, capture, audioFile, failure,
                   sigints, ttsVars>>
    /\ UNCHANGED notLoop

\* Ctrl+C while the main thread is blocked inside the try of run_interactive.
\* In input() the handler of record_and_transcribe stops the capture first;
\* in transcribe the finally removes the file; in the sleep of the
\* KeyboardInterrupt handler the exception leaves through the finally.
LoopInterrupt ==
    /\ sigints < MaxSigints
    /\ lpc \in {"await_enter", "transcribing", "dispatching", "exit_grace",
                "interrupt_grace"}
    /\ sigints' = sigints + 1
    /\ capture' = IF lpc = "await_enter" THEN "exited" ELSE capture
    /\ audioFile' = IF lpc = "transcribing" THEN "absent" ELSE audioFile
    /\ lpc' = IF lpc = "interrupt_grace" THEN "finally" ELSE "on_interrupt"
    /\ UNCHANGED <<rounds, user_input, response, failure, ttsVars>>
    /\ UNCHANGED notLoop

\* Ctrl+C while run_mcphost is inside readline, the sleep after quit or
\* wait: a bare except of the runner swallows it and the call goes on
DispatchInterruptSwallowed ==
    /\ sigints < MaxSigints
    /\ lpc = "dispatching"
    /\ sigints' = sigints + 1
    /\ UNCHANGED <<lpc, rounds, user_input, response, capture, audioFile,
                   failure, ttsVars>>
    /\ UNCHANGED notLoop

\* except KeyboardInterrupt: self.speak_text("Goodbye!"); time.sleep(2)
OnInterrupt ==
    /\ lpc = "on_interrupt"
    /\ SpeakText("farewell")
    /\ lpc' = "interrupt_grace"
    /\ UNCHANGED <<rounds, user_input, response, capture, audioFile, failure,
                   sigints>>
    /\ UNCHANGED notLoop

\* time.sleep(2) is over
InterruptGraceOver ==
    /\ lpc = "interrupt_grace"
    /\ lpc' = "finally"
    /\ UNCHANGED <<rounds, user_input, response, capture, audioFile, failure,
                   sigints, ttsVars>>
    /\ UNCHANGED notLoop

\* except Exception as e: self.speak_text(error_msg)
OnError ==
    /\ lpc = "on_error"
    /\ SpeakText("error")
    /\ lpc' = "finally"
    /\ UNCHANGED <<rounds, user_input, response, capture, audioFile, failure,
                   sigints>>
    /\ UNCHANGED notLoop

\* finally: self.tts_queue.put(None); os.remove(self.audio_file)
Finally ==
    /\ lpc = "finally"
    /\ CanPut(tts_queue)
    /\ tts_queue' = QueuePut(tts_queue, Sentinel)
    /\ audioFile' = "absent"
    /\ lpc' = "done"
    /\ UNCHANGED <<wpc, submitted, playing, started, finished, failed>>
    /\ UNCHANGED <<rounds, user_input, response, capture, failure, sigints>>
    /\ UNCHANGED notLoop

\* run_interactive has returned or raised and main is over: the interpreter
\* exits without waiting for the worker, a daemon thread, which ends where it
\* is
ProcessExit ==
    /\ lpc = "done"
    /\ lpc' = "exited"
    /\ wpc' = IF wpc = "stopped" THEN wpc ELSE "killed"
    /\ playing' = {}
    /\ UNCHANGED <<tts_queue, submitted, started, finished, failed>>
    /\ UNCHANGED <<rounds, user_input, response, capture, audioFile, failure,
                   sigints>>
    /\ UNCHANGED notLoop

Init == LoopInit /\ TtsInit /\ RunParked /\ TextParked /\ PtyParked

Next ==
    \/ Welcome
    \/ StartRecording
    \/ ArecordWrite
    \/ PressEnter
    \/ InputEof
    \/ StopRecording
    \/ CheckAudio
    \/ Transcribe
    \/ ExitCheck
    \/ Dispatch
    \/ SpeakResponse
    \/ ExitGraceOver
    \/ LoopInterrupt
    \/ DispatchInterruptSwallowed
    \/ OnInterrupt
    \/ InterruptGraceOver
    \/ OnError
    \/ Finally
    \/ ProcessExit
    \/ WorkerGet
    \/ WorkerPlayed
    \/ WorkerTtsError

Spec == Init /\ [][Next]_vars

-----------------------------------------------------------------------------
\* The text scenario: build an argument from fragments, then apply a transform

MaxRespFrags == 4

MaxSpeechFrags == 3

ResponseFragments == {
    <<"E","S">>, <<"C">>, <<"o","k">>, <<" ">>, <<"<","b",">">>, <<"<">>,
    <<"x01">>, <<"TAB">>, <<"LF">>, <<"xa0">> }

Filler == [i \in 1..300 |-> "x"]

\* with Filler, a text of exactly the length budget
ShortFiller == [i \in 1..200 |-> "x"]

SpeechFragments == {
    <<"[">>, <<"[","a","]","(","b",")">>, <<"]","(","c",")">>,
    <<"*">>, <<"C","P","U">>, <<"S","S">>, <<"H","T","T","P">>, Filler,
    ShortFiller }

Fragments(mode) ==
    IF mode = "response" THEN ResponseFragments ELSE SpeechFragments

MaxFrags(mode) ==
    IF mode = "response" THEN MaxRespFrags ELSE MaxSpeechFrags

TextInit ==
    /\ textMode \in {"response", "speech"}
    /\ textIn = <<>>
    /\ textN = 0
    /\ textOut = <<>>
    /\ textStage = "typing"

\* one more fragment of the argument
TypeFragment ==
    /\ textStage = "typing"
    /\ textN < MaxFrags(textMode)
    /\ \E f \in Fragments(textMode) : textIn' = textIn \o f
    /\ textN' = textN + 1
    /\ UNCHANGED <<textMode, textOut, textStage>>
    /\ UNCHANGED notText

\* clean_response = clean_mcphost_response(response)
ApplyCleanResponse ==
    /\ textStage = "typing"
    /\ textMode = "response"
    /\ textOut' = clean_mcphost_response(textIn)
    /\ textStage' = "applied"
    /\ UNCHANGED <<textMode, textIn, textN>>
    /\ UNCHANGED notText

\* clean_text = clean_text_for_speech(text)
ApplyCleanSpeech ==
    /\ textStage = "typing"
    /\ textMode = "speech"
    /\ textOut' = clean_text_for_speech(textIn)
    /\ textStage' = "applied"
    /\ UNCHANGED <<textMode, textIn, textN>>
    /\ UNCHANGED notText

TextNext == TypeFragment \/ ApplyCleanResponse \/ ApplyCleanSpeech

InitText == TextInit /\ RunParked /\ LoopParked /\ PtyParked

SpecText == InitText /\ [][TextNext]_vars

-----------------------------------------------------------------------------
\* Claims about one call of run_mcphost (SpecDispatch)

\* what a call hands back to the loop: one of the strings of Responses, or a
\* KeyboardInterrupt that no handler of the runner caught
ReturnsAreResponses ==
    rpc = "returned" =>
        \/ result \in Responses /\ raised = "none"
        \/ result = "none" /\ raised = "KeyboardInterrupt"

\* C1: whatever the child does, a call is over within the response timeout
\* plus the grace (two reads of one second, the sleep after quit, the
\* terminate grace).
C1_ReturnsWithinGrace ==
    rpc \notin {"idle", "popen"} => now <= Deadline + Grace

\* C1 on the platform that waits with select: a child that prints characters
\* without a line terminator and keeps running holds the call in readline.
C1_PosixReturnsWithinGrace ==
    platform = "posix" => C1_ReturnsWithinGrace

\* C2: when the call returns, by whatever path, the child it spawned has
\* exited or has been sent terminate or kill.
C2_ChildGoneAtReturn ==
    rpc = "returned" => (child \in {"none", "exited"} \/ childSig # "none")

\* C4: a failed launch or a failed write of the prompt leaves the basic
\* strategy as an exception and run_mcphost then runs the pseudo-terminal
\* strategy; a call without such a failure returns the labelled output, raises
\* nothing and does not run the fallback.
C4_FailureFallsBack ==
    /\ (rpc = "returned" /\ fault # "none") => usedFallback
    /\ (rpc = "returned" /\ result = "labeled") => (~usedFallback /\ raised = "none")

\* the children of the agent that are alive
LiveChildren == orphans + (IF child = "running" THEN 1 ELSE 0)

\* C17: over any sequence of calls, at most one child process of the agent
\* is alive.
C17_AtMostOneChild == LiveChildren <= 1

\* the steps between the end of the polling loop and the return
CleanupPcs == {"quit_write", "quit_sleep", "terminate", "wait"}

\* C18: when the loop test finds the deadline reached and the child still
\* running, the call goes through the cleanup and returns the labelled
\* output: the accumulators are not touched any more, nothing is raised and
\* the result is not the error message.
C18_DeadlineReturnsLabeled ==
    /\ [][(rpc = "loop_test" /\ now >= Deadline /\ child = "running" /\ rpc' # rpc)
            => rpc' = "quit_write"]_vars
    /\ [][(rpc \in CleanupPcs)
            => (/\ rpc' \in CleanupPcs \cup {"run_mcphost"}
                /\ acc' = acc
                /\ raised' = "none"
                /\ (rpc' = "run_mcphost" => result' = "labeled"))]_vars
    /\ [][(rpc = "run_mcphost" /\ result = "labeled" /\ rpc' # rpc)
            => (rpc' = "returned" /\ result' = "labeled" /\ raised' = "none")]_vars

\* C18 witness: a call with a timeout of a second read a line, ran into its
\* deadline with the child still running, had to kill it, and returned the
\* labelled output.
C18_Witness ==
    /\ rpc = "returned"
    /\ result = "labeled"
    /\ response_timeout >= 1
    /\ now >= Deadline
    /\ childSig = "kill"
    /\ acc["stdout"] >= 1

\* a Ctrl+C that arrived during the call always leaves it as
\* KeyboardInterrupt (it does not: the bare excepts around readline, the
\* sleep after quit and wait swallow it)
InterruptAlwaysRaised ==
    (rpc = "returned" /\ interrupts > 0) => raised = "KeyboardInterrupt"

\* C26: a child that wrote lines to its standard output and exited before
\* the deadline has all of them in the labelled response: a call that returns
\* the labelled output before the deadline, its child having exited inside
\* the read loop, leaves no line of standard output unread.
C26_LinesBeforeExitAreReturned ==
    (/\ rpc = "returned"
     /\ result = "labeled"
     /\ child = "exited"
     /\ now < Deadline)
        => pipe["stdout"] = 0

-----------------------------------------------------------------------------
\* Claims about the loop and the speech queue (Spec)

Range(f) == {f[i] : i \in DOMAIN f}

\* C3: a failure of a call site of one exchange does not end the loop: the
\* main thread is not in the error handler, the cleanup or past the loop
\* while the iteration carries a failure.
C3_LoopSurvivesFailure ==
    failure # "none" => lpc \notin {"on_error", "finally", "done"}

\* C5: at most one utterance is being played, and an utterance starts only
\* after every utterance put before it has ended.
C5_OrderedNoOverlap ==
    /\ Cardinality(playing) <= 1
    /\ \A j \in Range(started) :
         \A i \in 1..(j - 1) : i \in finished \cup failed

\* C5 witness: two utterances were put and both were played to the end.
C5_Witness ==
    /\ Len(submitted) >= 2
    /\ {1, 2} \subseteq finished

\* the utterances still on the queue, in queue order
Pending == SelectSeq(tts_queue, LAMBDA item : item # Sentinel)

\* the sentinel was put and the worker took it
SentinelTaken ==
    lpc \in {"done", "exited"} /\ Sentinel \notin Range(tts_queue)

\* C6: a playback failure neither stops the worker nor loses an utterance:
\* the worker stops on the sentinel alone, and the utterances taken so far
\* followed by those still queued are all the utterances put, in order of put.
C6_FailureKeepsWorkerAndQueue ==
    /\ wpc = "stopped" => SentinelTaken
    /\ started \o Pending = [i \in 1..Len(submitted) |-> i]

\* C6 witness: the engine raised on one utterance and the next one was
\* played to the end.
C6_Witness == \E k \in failed : k + 1 \in finished

\* the same letter, whatever the case
SameLetter(a, b) ==
    \/ a = b
    \/ \E n \in 1..Len(UpperCase) :
         {a, b} = {UpperCase[n], LowerCase[n]}

\* the whole transcript is one of the exit phrases, case ignored
IsExitPhrase(text) ==
    \E phrase \in ExitCommands :
        /\ Len(text) = Len(phrase)
        /\ \A i \in 1..Len(text) : SameLetter(text[i], phrase[i])

\* C10: the loop leaves through the exit phrase exactly when the whole
\* transcript is an exit phrase, case ignored: then nothing is dispatched;
\* any other transcript is dispatched.
C10_ExitIffExactPhrase ==
    /\ lpc = "exit_grace" => (IsExitPhrase(user_input) /\ response = "none")
    /\ lpc \in {"dispatching", "speak"} => ~IsExitPhrase(user_input)

\* C10 witness: the transcript STOP, in capitals, took the loop to the exit.
C10_Witness ==
    /\ lpc = "exit_grace"
    /\ user_input = <<"S","T","O","P">>

\* C11: a capture that left no file or a zero-byte file takes the loop back
\* to recording: the step after the file test neither starts a transcription
\* nor hands anything to the agent.
C11_NoAudioBackToRecording ==
    [][(lpc = "check_audio" /\ audioFile \in {"absent", "empty"})
         => /\ lpc' \in {"check_audio", "record"}
            /\ user_input' = user_input
            /\ response' = response]_vars

\* C11 witness: a capture ended with a zero-byte file and the loop is back at
\* recording.
C11_Witness ==
    /\ lpc = "record"
    /\ rounds >= 1
    /\ capture = "exited"
    /\ audioFile = "empty"

\* C12: the audio file does not outlive an iteration: when a recording is
\* about to start after an earlier one, and when run_interactive is over,
\* voice.wav does not exist.
C12_AudioFileGoneBetweenIterations ==
    ((lpc = "record" /\ rounds >= 1) \/ lpc = "done") => audioFile = "absent"

\* C13: an interruption ends the session through the farewell: once Ctrl+C
\* has arrived, the main thread is still inside the dispatch it interrupted
\* or about to run the handler, or the farewell has been put on the queue;
\* it does not go on to speak a reply or to record again.
C13_InterruptEndsSession ==
    sigints > 0 =>
        \/ lpc \in {"dispatching", "on_interrupt"}
        \/ "farewell" \in Range(submitted)

\* C20: putting an utterance never makes the main thread wait for the
\* worker: wherever it is about to speak, the step that puts the utterance can
\* be taken, and so can the start of the next recording, whatever is pending
\* or playing.
C20_EnqueueNeverBlocks ==
    /\ lpc = "start" => ENABLED Welcome
    /\ lpc = "speak" => ENABLED SpeakResponse
    /\ lpc = "have_input" => ENABLED ExitCheck
    /\ lpc = "on_interrupt" => ENABLED OnInterrupt
    /\ lpc = "on_error" => ENABLED OnError
    /\ (lpc = "record" /\ rounds < MaxRounds) => ENABLED StartRecording

\* C20 witness: the second recording is under way while the welcome is still
\* playing and the reply of the first round waits on the queue.
C20_Witness ==
    /\ lpc = "await_enter"
    /\ rounds = 2
    /\ playing = {1}
    /\ Len(submitted) >= 2
    /\ submitted[2] = "reply"
    /\ 2 \in Range(tts_queue)

\* the position of an item on the queue, 0 when it is not there
QueueIndex(item) ==
    IF \E i \in 1..Len(tts_queue) : tts_queue[i] = item
    THEN CHOOSE i \in 1..Len(tts_queue) : tts_queue[i] = item
    ELSE 0

\* the number of the farewell of the exit phrase among the utterances put,
\* 0 when none was put
GoodbyeNumber ==
    IF \E k \in 1..Len(submitted) : submitted[k] = "goodbye"
    THEN CHOOSE k \in 1..Len(submitted) : submitted[k] = "goodbye"
    ELSE 0

\* C21: on the exit phrase the farewell is put first, then the loop sleeps,
\* then the sentinel is put and the loop is over: during the sleep the
\* farewell is the newest utterance and no sentinel is on the queue, the
\* sleep is followed by the cleanup, the cleanup puts the sentinel, and a
\* farewell still on the queue is ahead of the sentinel.
C21_FarewellThenGraceThenSentinel ==
    /\ [](lpc = "exit_grace"
            => /\ GoodbyeNumber = Len(submitted)
               /\ QueueIndex(Sentinel) = 0)
    /\ [][(lpc = "exit_grace" /\ lpc' # lpc /\ sigints' = sigints)
            => (lpc' = "finally" /\ tts_queue' = tts_queue)]_vars
    /\ [][(lpc = "finally" /\ lpc' # lpc)
            => (lpc' = "done" /\ QueueIndex(Sentinel)' # 0)]_vars
    /\ []((/\ GoodbyeNumber # 0
            /\ QueueIndex(GoodbyeNumber) # 0
            /\ QueueIndex(Sentinel) # 0)
            => QueueIndex(GoodbyeNumber) < QueueIndex(Sentinel))

\* C21 witness: the loop ended on the exit phrase, and the farewell and the
\* sentinel are both on the queue.
C21_Witness ==
    /\ lpc = "done"
    /\ sigints = 0
    /\ GoodbyeNumber # 0
    /\ QueueIndex(GoodbyeNumber) # 0
    /\ QueueIndex(Sentinel) # 0

\* C22: the worker that takes the sentinel stops: the step that takes it
\* starts no playback, and a stopped worker stays stopped, takes nothing from
\* the queue and plays nothing.
C22_SentinelStopsWorker ==
    /\ [][(/\ wpc = "get"
           /\ tts_queue # <<>>
           /\ Head(tts_queue) = Sentinel
           /\ tts_queue' = Tail(tts_queue))
            => (wpc' = "stopped" /\ started' = started /\ playing' = {})]_vars
    /\ [][(wpc = "stopped")
            => /\ wpc' = "stopped"
               /\ started' = started
               /\ playing' = {}
               /\ Len(tts_queue') >= Len(tts_queue)]_vars

\* C22 witness: the worker played something, then took the sentinel and
\* stopped.
C22_Witness ==
    /\ wpc = "stopped"
    /\ finished # {}
    /\ lpc = "done"
    /\ QueueIndex(Sentinel) = 0

\* C23: the transcription reads the audio file only when the capture
\* process has been signalled to stop and waited for: whenever the loop is
\* transcribing, the capture process has exited and writes no more.
C23_TranscribeAfterCaptureExit ==
    lpc = "transcribing" => (capture = "exited" /\ ~ ENABLED ArecordWrite)

\* C23 witness: the loop is transcribing a recording with content.
C23_Witness ==
    /\ lpc = "transcribing"
    /\ audioFile = "content"
    /\ capture = "exited"

\* a text with nothing in it but whitespace, the empty text included
IsBlank(s) == \A i \in 1..Len(s) : IsSpace(s[i])

\* C24: a transcription that is empty, only whitespace, or that raises takes
\* the loop back to recording: a transcript that goes on to the exit test or
\* to the dispatch is never blank, and the step that ends a transcription
\* without a transcript goes to recording, dispatches nothing and puts no
\* utterance.
C24_BlankTranscriptBackToRecording ==
    /\ [](lpc \in {"have_input", "dispatching", "speak"}
            => ~ IsBlank(user_input))
    /\ [][(/\ lpc = "transcribing"
           /\ lpc' # lpc
           /\ sigints' = sigints
           /\ IsBlank(user_input'))
            => /\ lpc' = "record"
               /\ submitted' = submitted
               /\ tts_queue' = tts_queue
               /\ response' = response]_vars
    /\ [][(lpc = "transcribing" /\ failure' # failure)
            => (lpc' = "record" /\ submitted' = submitted)]_vars

\* C24 witness: a transcription raised and the loop is recording again, with
\* nothing dispatched and only the welcome put.
C24_Witness ==
    /\ lpc = "record"
    /\ failure = "transcription"
    /\ response = "none"
    /\ Len(submitted) = 1

\* C27: on every way the program ends, every utterance put before the
\* sentinel has been played to the end when the process exits.
C27_AllPlayedBeforeExit ==
    lpc = "exited" => \A k \in 1..Len(submitted) : k \in finished

\* C28: whenever record_and_transcribe is over, by return or by exception,
\* the capture process it launched has been terminated and waited for: the
\* capture process runs only while the loop waits for Enter or is about to
\* stop it.
C28_CaptureStoppedOnEveryPath ==
    capture \in {"running", "writing"} => lpc \in {"await_enter", "stop_capture"}

\* C29: an iteration whose transcript is neither blank nor an exit phrase
\* puts exactly one utterance before the next recording, whatever the
\* dispatch did: the dispatch hands back a string that is not empty and
\* raises no Exception (it goes on to the reply, or to the interrupt handler
\* on Ctrl+C), puts nothing itself, and the step after it puts the one reply
\* and goes back to recording.
C29_OneUtterancePerDispatch ==
    /\ [](lpc = "speak" => response \in {"labeled", "error"})
    /\ [][(lpc = "dispatching" /\ lpc' # lpc)
            => /\ lpc' \in {"speak", "on_interrupt"}
               /\ submitted' = submitted]_vars
    /\ [][(lpc = "speak" /\ lpc' # lpc)
            => /\ lpc' = "record"
               /\ submitted' = Append(submitted, "reply")
               /\ Len(tts_queue') = Len(tts_queue) + 1]_vars

\* C29 witness: the dispatch handed back its error message, and the reply
\* was put before the loop went back to recording.
C29_Witness ==
    /\ lpc = "record"
    /\ response = "error"
    /\ submitted[Len(submitted)] = "reply"

-----------------------------------------------------------------------------
\* Claims about the text transforms (SpecText)

\* C7: noise removal is idempotent: cleaning a cleaned response changes nothing.
C7_CleanResponseIdempotent ==
    (textStage = "applied" /\ textMode = "response")
        => clean_mcphost_response(textOut) = textOut

\* C8: speech shaping is idempotent: shaping a shaped text changes nothing.
C8_CleanSpeechIdempotent ==
    (textStage = "applied" /\ textMode = "speech")
        => clean_text_for_speech(textOut) = textOut

\* the text of clean_text_for_speech just before the length limit: markers
\* stripped, links rewritten, acronyms expanded
Shaped(text) == ApplyReplacements(SubLinks(StripMarkers(text)), 1)

\* C19: speech shaping cuts at the budget of 500 characters: a shaped text
\* longer than 500 comes out as its first 500 characters followed by the
\* notice, any other comes out unchanged, and no output is longer than 500
\* characters plus the notice.
C19_TruncatesToBudget ==
    (textStage = "applied" /\ textMode = "speech")
        => LET shaped == Shaped(textIn)
           IN  /\ Len(shaped) > 500
                    => textOut = SubSeq(shaped, 1, 500) \o TruncationNotice
               /\ Len(shaped) <= 500 => textOut = shaped
               /\ Len(textOut) <= 500 + Len(TruncationNotice)

\* C19 witness: a text of 600 characters was cut to 500 and the notice.
C19_Witness ==
    /\ textStage = "applied"
    /\ textMode = "speech"
    /\ Len(Shaped(textIn)) = 600
    /\ Len(textOut) = 542

\* a text of exactly 500 characters was shaped
C19_AtBudgetReached ==
    /\ textStage = "applied"
    /\ textMode = "speech"
    /\ Len(Shaped(textIn)) = 500

\* C9: the output of noise removal holds no character with ordinal below 32.
C9_NoLowControlInOutput ==
    (textStage = "applied" /\ textMode = "response")
        => \A i \in 1..Len(textOut) : textOut[i] \notin LowControl

\* C9 witness: an argument holding control characters was cleaned to a
\* non-empty result.
C9_Witness ==
    /\ textStage = "applied"
    /\ textMode = "response"
    /\ \E i \in 1..Len(textIn) : textIn[i] \in LowControl
    /\ textOut # <<>>

-----------------------------------------------------------------------------
\* Claims about one call of run_mcphost_with_pexpect (SpecPexpect)

\* C14: the wait for a ready pattern is bounded, and when it ends by its
\* timeout the strategy goes on to sendline, which writes the prompt to the
\* pseudo-terminal of a child that is still there.
C14_ReadyTimeoutStillSends ==
    /\ [](ppc = "await_ready" => pwaited <= ExpectReadyTimeout)
    /\ [][(/\ ppc = "await_ready"
           /\ ppc' # ppc
           /\ ExpectOutcome(ReadyPatterns, ExpectReadyTimeout) = "timeout")
            => ppc' = "send"]_vars
    /\ [][(ppc = "send" /\ ppc' # ppc /\ pchild = "running")
            => (ppc' = "await_start" /\ psent' = <<"prompt_line">>)]_vars

\* C14 witness: no ready pattern matched within the wait and the prompt was
\* written all the same.
C14_Witness ==
    /\ Len(pmatched) >= 1
    /\ pmatched[1] = "timeout"
    /\ psent = <<"prompt_line">>

\* C15: when the call returns after the child was spawned, child.close() has
\* been called, whatever ended each wait and whether or not an exception was
\* raised.
C15_ClosedOnEveryPath ==
    (ppc = "returned" /\ pchild # "none") => pclosed

\* C16: when the wait for the beginning of the reply ends by its timeout, the
\* call returns the text buffered at that moment.
C16_StartTimeoutReturnsBuffered ==
    (ppc = "returned" /\ Len(pmatched) = 2 /\ pmatched[2] = "timeout")
        => (presult.kind # "error" /\ presult.text = pbefore)

\* the text ahead of the first next-prompt in a text, all of it without one
ReplyText(text) ==
    IF MatchAt(text, NextPatterns) # 0
    THEN SubSeq(text, 1, MatchAt(text, NextPatterns) - 1)
    ELSE text

\* C25: the wait for the end of the reply is bounded and is made once, so the
\* loop ends; and the text it leaves to return is all the child's text read
\* after the reply-begins marker and before what ended the wait: the text the
\* match of the marker took after the marker, then the text ahead of the end
\* of the wait, up to the first next-prompt.
C25_ReturnsAllAfterMarker ==
    /\ [](ppc = "accumulate" => pwaited <= ExpectNextTimeout)
    /\ [][(ppc = "accumulate" /\ ppc' # ppc)
            => /\ ppc' = "close"
               /\ response_text' = ReplyText(Tail(pafter) \o pbefore')]_vars
    /\ []((ppc = "returned" /\ Len(pmatched) = 3)
            => presult.text = response_text)

====
